---------------------------- MODULE Spec2Model ----------------------------
(***************************************************************************)
(* Model of api/chat.js: the serverless chat proxy that classifies a       *)
(* message by complexity, picks a model, and forwards the conversation to  *)
(* the OpenRouter chat-completions endpoint.                                *)
(*                                                                         *)
(* Strings that the code inspects character by character (the message,     *)
(* the patterns) are sequences of one-character strings.  Strings the code *)
(* only passes along (error texts, replies, model names) are TLA+ strings. *)
(***************************************************************************)
EXTENDS Integers, Sequences, FiniteSets, TLC

(***************************************************************************)
(* Bounds of the model.                                                    *)
(***************************************************************************)
\* largest number of single-space separated tokens of an enumerated message
MaxWords == 5
\* longest history array a request carries
MaxHistory == 10
\* longest message, in characters, a request carries
MaxMsgLen == 600
\* number of requests in flight at once in the interleaved specification
NumReqs == 2

(***************************************************************************)
(* Program constants.                                                      *)
(***************************************************************************)
\* message.slice(0, 500)
SliceLimit == 500
\* history.slice(-6)
HistoryWindow == 6
\* wordCount <= 4
SimpleWordLimit == 4
\* wordCount > 25
ComplexWordLimit == 25
\* historyLen > 8
HistoryLenLimit == 8

MODELS ==
    [ simple  |-> "x-ai/grok-4.1-fast",
      medium  |-> "x-ai/grok-4.1-fast",
      complex |-> "x-ai/grok-4.1-fast" ]

\* The persona prompt is one fixed string the code never inspects; it is
\* abbreviated to its first words.
SYSTEM_PROMPT ==
    <<"Y","o","u"," ","a","r","e"," ","E","m","i","l","y">>

MethodNotAllowed == "Method not allowed"
KeyNotConfigured == "API key not configured"
InvalidMessage == "Invalid message"
SomethingWentWrong == "Something went wrong. Please try again."

(***************************************************************************)
(* JavaScript string operations, on sequences of characters.               *)
(***************************************************************************)
UpperCase ==
    <<"A","B","C","D","E","F","G","H","I","J","K","L","M",
      "N","O","P","Q","R","S","T","U","V","W","X","Y","Z">>

LowerCase ==
    <<"a","b","c","d","e","f","g","h","i","j","k","l","m",
      "n","o","p","q","r","s","t","u","v","w","x","y","z">>

LowerChar(c) ==
    IF \E i \in 1..Len(UpperCase) : UpperCase[i] = c
    THEN LowerCase[CHOOSE i \in 1..Len(UpperCase) : UpperCase[i] = c]
    ELSE c

\* String.prototype.toLowerCase
toLowerCase(s) ==
    [i \in 1..Len(s) |-> LowerChar(s[i])]

WhiteSpace == {" ", "\t", "\n"}

\* String.prototype.trim: drops the white space at both ends
trim(s) ==
    LET keep == {i \in 1..Len(s) : s[i] \notin WhiteSpace}
    IN  IF keep = {} THEN <<>>
        ELSE LET lo == CHOOSE i \in keep : \A j \in keep : i <= j
                 hi == CHOOSE i \in keep : \A j \in keep : i >= j
             IN  SubSeq(s, lo, hi)

\* String.prototype.startsWith
startsWith(s, p) ==
    /\ Len(p) <= Len(s)
    /\ SubSeq(s, 1, Len(p)) = p

\* a prefix test where a containment test is meant
includesAtStartOnly(s, p) ==
    /\ Len(p) <= Len(s)
    /\ SubSeq(s, 1, Len(p)) = p

\* String.prototype.includes
includes(s, p) ==
    \E i \in 1..(Len(s) - Len(p) + 1) : SubSeq(s, i, i + Len(p) - 1) = p

\* message.split(' ').length: one more than the number of single spaces, so
\* that consecutive spaces yield empty tokens that count
splitLength(s) ==
    Cardinality({i \in 1..Len(s) : s[i] = " "}) + 1

\* String.prototype.slice(0, n) for n >= 0
slice0(s, n) ==
    SubSeq(s, 1, IF Len(s) < n THEN Len(s) ELSE n)

(***************************************************************************)
(* JavaScript values of the request body.                                  *)
(*   history: [kind, items, str]; items is the array (kind "array"), str   *)
(*   the characters (kind "string").                                       *)
(*   a turn:  [kind, sender, text]; kind "null" is a null element.         *)
(***************************************************************************)
\* history = [] default of the destructuring: only undefined is replaced
DefaultHistory(h) ==
    IF h.kind = "absent" THEN [kind |-> "array", items |-> <<>>, str |-> <<>>]
    ELSE h

\* evaluating history.length throws for null
LengthThrows(h) ==
    h.kind = "null"

\* history.length > n; the length of a number or a plain object is undefined
\* and undefined > n is false
LengthExceeds(h, n) ==
    CASE h.kind = "array"  -> Len(h.items) > n
      [] h.kind = "string" -> Len(h.str) > n
      [] OTHER             -> FALSE

(***************************************************************************)
(* detectComplexity                                                        *)
(***************************************************************************)
simplePatterns ==
    { <<"h","i">>,
      <<"h","e","l","l","o">>,
      <<"h","e","y">>,
      <<"t","h","a","n","k","s">>,
      <<"t","h","a","n","k"," ","y","o","u">>,
      <<"o","k">>,
      <<"o","k","a","y">>,
      <<"y","e","s">>,
      <<"n","o">>,
      <<"s","u","r","e">>,
      <<"g","r","e","a","t">>,
      <<"a","w","e","s","o","m","e">>,
      <<"c","o","o","l">>,
      <<"g","o","t"," ","i","t">> }

complexPatterns ==
    { <<"i","n","t","e","g","r","a","t","e">>,
      <<"a","p","i">>,
      <<"t","e","c","h","n","i","c","a","l">>,
      <<"a","r","c","h","i","t","e","c","t","u","r","e">>,
      <<"h","o","w"," ","e","x","a","c","t","l","y">>,
      <<"e","x","p","l","a","i","n"," ","i","n"," ","d","e","t","a","i","l">>,
      <<"s","t","e","p"," ","b","y"," ","s","t","e","p">>,
      <<"c","o","m","p","a","r","e">>,
      <<"d","i","f","f","e","r","e","n","c","e"," ","b","e","t","w","e","e","n">>,
      <<"c","u","s","t","o","m">>,
      <<"s","p","e","c","i","f","i","c">>,
      <<"e","n","t","e","r","p","r","i","s","e">>,
      <<"c","o","m","p","l","i","a","n","c","e">>,
      <<"g","d","p","r">>,
      <<"s","o","c">>,
      <<"m","u","l","t","i","p","l","e">>,
      <<"s","e","v","e","r","a","l">>,
      <<"a","n","d"," ","a","l","s","o">>,
      <<"a","l","s","o"," ","w","a","n","t">>,
      <<"i","n"," ","a","d","d","i","t","i","o","n">> }

isGreeting(text) ==
    \E p \in simplePatterns : text = p \/ startsWith(text, p \o <<" ">>)

isComplex(text, wordCount) ==
    \/ \E p \in complexPatterns : includes(text, p)
    \/ wordCount > ComplexWordLimit

\* the complex rule tried before the simple rule
detectComplexityComplexFirst(message, history) ==
    LET text      == trim(toLowerCase(message))
        wordCount == splitLength(message)
    IN  IF isComplex(text, wordCount) \/ LengthExceeds(history, HistoryLenLimit)
        THEN "complex"
        ELSE IF isGreeting(text) \/ wordCount <= SimpleWordLimit THEN "simple"
             ELSE "medium"

\* history is a value for which history.length does not throw
detectComplexity(message, history) ==
    LET text      == trim(toLowerCase(message))
        wordCount == splitLength(message)
    IN  IF isGreeting(text) \/ wordCount <= SimpleWordLimit THEN "simple"
        ELSE IF isComplex(text, wordCount) \/ LengthExceeds(history, HistoryLenLimit)
             THEN "complex"
             ELSE "medium"


(***************************************************************************)
(* Request inputs.                                                         *)
(***************************************************************************)
RECURSIVE Join(_)
\* the words joined by single spaces
Join(ws) ==
    IF Len(ws) = 0 THEN <<>>
    ELSE IF Len(ws) = 1 THEN ws[1]
    ELSE ws[1] \o <<" ">> \o Join(Tail(ws))

W_Hi == <<"H","i">>
W_high == <<"h","i","g","h">>
W_GdPr == <<"G","d","P","r">>
W_what == <<"w","h","a","t">>
W_tabNo == <<"\t","n","o">>

\* a greeting token, a word that only begins like one, a complex keyword in
\* mixed case, a neutral word, the empty token of two consecutive spaces, and
\* a greeting token behind white space that is not a space
Vocabulary ==
    { W_Hi, W_high, W_GdPr, W_what, <<>>, W_tabNo }

WordsOf(first, second, n) ==
    [i \in 1..n |-> IF i = 1 THEN first ELSE IF i = 2 THEN second ELSE W_what]

\* messages around the wordCount > 25 rule
ManyWordMessages ==
    { Join(WordsOf(f, g, n)) : f \in {W_Hi, W_what}, g \in {W_what, W_GdPr},
                               n \in {ComplexWordLimit, ComplexWordLimit + 1} }

ClassifierMessages ==
    { Join(ws) : ws \in UNION { [1..n -> Vocabulary] : n \in 1..MaxWords } }
        \cup ManyWordMessages

\* a long message whose characters depend on their position
LongMessage(n) ==
    [i \in 1..n |-> IF i % 10 = 0 THEN " " ELSE LowerCase[(i % 26) + 1]]

\* a long message of five tokens whose only complex keyword lies at its end
TailKeywordMessage(n) ==
    [i \in 1..n |-> IF i % 100 = 0 /\ i < SliceLimit THEN " "
                    ELSE IF i > n - 4 THEN <<"g","d","p","r">>[i - (n - 4)]
                    ELSE "x"]

HandlerTexts ==
    { Join(<<W_Hi>>),
      Join(<<W_what, W_what, W_what, W_what, W_what>>),
      Join(<<W_Hi, W_GdPr, W_what, W_what, W_what>>),
      Join(<<W_what, W_GdPr, W_what, W_what, W_what>>),
      TailKeywordMessage(MaxMsgLen) }
        \cup { LongMessage(n) : n \in {SliceLimit - 1, SliceLimit, SliceLimit + 1, MaxMsgLen} }

\* req.body.message: absent, a number, or a string (the empty one included)
MessageValues ==
    { [kind |-> "absent", str |-> <<>>],
      [kind |-> "number", str |-> <<>>],
      [kind |-> "string", str |-> <<>>] }
        \cup { [kind |-> "string", str |-> t] : t \in HandlerTexts }

Senders == <<"user", "bot", "User", "absent">>

TurnText(i) ==
    <<"t", LowerCase[((i - 1) % 26) + 1]>>

NullTurn == [kind |-> "null", sender |-> "absent", text |-> <<>>]

\* an array of n turns whose senders cycle from offset k and whose texts
\* tell the positions apart
HistoryArray(n, k) ==
    [ kind  |-> "array",
      items |-> [i \in 1..n |-> [ kind   |-> "object",
                                  sender |-> Senders[((i + k) % 4) + 1],
                                  text   |-> TurnText(i) ]],
      str   |-> <<>> ]

\* the array with a null in place of its element j
WithNullAt(h, j) ==
    [h EXCEPT !.items[j] = NullTurn]

HistoryValues ==
    { HistoryArray(n, k) : n \in 0..MaxHistory, k \in 0..3 }
        \cup { WithNullAt(HistoryArray(HistoryWindow + 1, 0), 1),
               WithNullAt(HistoryArray(HistoryWindow + 1, 0), 2) }
        \cup { [kind |-> kd, items |-> <<>>, str |-> <<>>] :
                  kd \in {"absent", "null", "number", "object"} }
        \cup { [kind |-> "string", items |-> <<>>, str |-> LongMessage(HistoryLenLimit + 1)] }

MissingBody ==
    [ present |-> FALSE,
      message |-> [kind |-> "absent", str |-> <<>>],
      history |-> [kind |-> "absent", items |-> <<>>, str |-> <<>>] ]

Bodies ==
    { [present |-> TRUE, message |-> m, history |-> h] :
          m \in MessageValues, h \in HistoryValues }
        \cup { MissingBody }

Methods == {"POST", "GET", "OPTIONS"}

Requests ==
    [method : Methods, body : Bodies]

\* the few requests the interleaved specification draws from
FewRequests ==
    { [method |-> "GET", body |-> MissingBody],
      [method |-> "POST", body |-> MissingBody],
      [method |-> "POST",
       body |-> [present |-> TRUE,
                 message |-> [kind |-> "string", str |-> Join(<<W_Hi>>)],
                 history |-> HistoryArray(1, 0)]] }

\* process.env.OPENROUTER_API_KEY: unset, empty, or a key
KeyValues == {"undefined", "", "sk-or-key"}

\* what the upstream and the runtime can report
UpstreamErrorTexts == {"rate limited", "invalid model"}
RejectionMessages == {"fetch failed", "Unexpected token < in JSON"}
\* data.choices?.[0]?.message?.content: undefined, "" or a text
ReplyValues ==
    { [kind |-> "undefined", text |-> ""],
      [kind |-> "string", text |-> ""],
      [kind |-> "string", text |-> "Happy to help."] }

(***************************************************************************)
(* State.                                                                  *)
(***************************************************************************)
VARIABLES
    apiKey,      \* OPENROUTER_API_KEY, read once when the module loads
    req,         \* req[r]: method and body of request r
    pc,          \* pc[r]: where the handler of request r stands
    locals,      \* locals[r]: sanitized, complexity, model
    outbound,    \* outbound[r]: the body of the fetch issued for r
    calls,       \* calls[r]: number of fetches issued for r
    upstream,    \* upstream[r]: what the fetch and the body read gave
    raised,      \* raised[r]: message of the last exception thrown in r
    res,         \* res[r]: the response sent for r
    log,         \* log[r]: the console.error lines of r
    cMessage,    \* classifier run: the message
    cHistory,    \* classifier run: the history
    cResult      \* classifier run: the tier returned

vars ==
    <<apiKey, req, pc, locals, outbound, calls, upstream, raised, res, log,
      cMessage, cHistory, cResult>>

handlerVars ==
    <<apiKey, req, pc, locals, outbound, calls, upstream, raised, res, log>>

classifierVars ==
    <<cMessage, cHistory, cResult>>

Reqs == 1..NumReqs

NoRequest == [method |-> "none", body |-> MissingBody]
NoLocals == [sanitized |-> <<>>, complexity |-> "unset", model |-> "unset"]
NoFetch == [model |-> "unset", messages |-> <<>>, max_tokens |-> 0,
            temperature |-> "unset", authorization |-> "unset"]
NoUpstream == [state |-> "none", text |-> "", reply |-> [kind |-> "undefined", text |-> ""]]
NoResponse == [status |-> 0, body |-> [none |-> TRUE]]

\* no request has arrived
HandlersIdle ==
    /\ req = [r \in Reqs |-> NoRequest]
    /\ pc = [r \in Reqs |-> "idle"]
    /\ locals = [r \in Reqs |-> NoLocals]
    /\ outbound = [r \in Reqs |-> NoFetch]
    /\ calls = [r \in Reqs |-> 0]
    /\ upstream = [r \in Reqs |-> NoUpstream]
    /\ raised = [r \in Reqs |-> "none"]
    /\ res = [r \in Reqs |-> NoResponse]
    /\ log = [r \in Reqs |-> <<>>]

InitHandler ==
    /\ apiKey \in KeyValues
    /\ HandlersIdle

NoClassifierRun ==
    /\ cMessage = <<>>
    /\ cHistory = HistoryArray(0, 0)
    /\ cResult = "unset"

Init ==
    /\ InitHandler
    /\ NoClassifierRun

(***************************************************************************)
(* The handler.                                                            *)
(***************************************************************************)
\* res.status(code).json({ error })
ErrorResponse(code, text) ==
    [status |-> code, body |-> [error |-> text]]

\* only GET turned away
MethodRejectedGetOnly(method) ==
    method = "GET"

\* req.method !== 'POST'
MethodRejected(method) ==
    method # "POST"

\* key === undefined, which lets an empty key through
KeyMissingUndefinedOnly(key) ==
    key = "undefined"

\* !OPENROUTER_API_KEY
KeyMissing(key) ==
    key \in {"undefined", ""}

\* !message || typeof message !== 'string'
MessageInvalid(message) ==
    \/ message.kind # "string"
    \/ message.str = <<>>

\* message.slice(0, 501)
SanitizeOneMore(str) ==
    slice0(str, SliceLimit + 1)

\* message.slice(0, 500)
Sanitize(str) ==
    slice0(str, SliceLimit)

\* slice(0, n): the head of the array where its tail is meant
firstN(items, n) ==
    IF Len(items) <= n THEN items
    ELSE SubSeq(items, 1, n)

\* Array.prototype.slice(-n)
lastN(items, n) ==
    IF Len(items) <= n THEN items
    ELSE SubSeq(items, Len(items) - n + 1, Len(items))

\* m.sender === 'user' ? 'user' : 'assistant'
RoleOf(m) ==
    IF m.sender = "user" THEN "user" ELSE "assistant"

\* history.slice(-6).map(...) throws when history has no slice (null, number,
\* object), when the slice has no map (string), or when a kept element is null
ChatHistoryThrows(history) ==
    \/ history.kind # "array"
    \/ \E i \in 1..Len(lastN(history.items, HistoryWindow)) :
           lastN(history.items, HistoryWindow)[i].kind = "null"

\* history.slice(-6).map(m => ({ role, content: m.text }))
ChatHistory(history) ==
    LET window == lastN(history.items, HistoryWindow)
    IN  [i \in 1..Len(window) |-> [role |-> RoleOf(window[i]), content |-> window[i].text]]

\* messages: [ system, ...chatHistory, user ]
OutboundMessages(chatHistory, sanitized) ==
    <<[role |-> "system", content |-> SYSTEM_PROMPT]>>
        \o chatHistory
        \o <<[role |-> "user", content |-> sanitized]>>

\* the forwarded window given to detectComplexity in place of the history
ClassifiedWindow(history) ==
    IF history.kind = "array"
    THEN [history EXCEPT !.items = lastN(@, HistoryWindow)]
    ELSE history

\* the history value detectComplexity is given
ClassifiedHistory(history) ==
    history

\* the message detectComplexity is given
ClassifiedMessage(message, sanitized) ==
    sanitized

\* a catch block that echoes err.message to the caller
CatchResponseEchoes(errMessage) ==
    ErrorResponse(500, errMessage)

\* catch (err): the response of the catch block
CatchResponse(errMessage) ==
    ErrorResponse(500, SomethingWentWrong)

\* a catch block that runs the request again
AfterCatchRetry == "received"

\* where the handler stands after its catch block has responded
AfterCatch == "done"

\* an exception thrown outside the try block: the promise of the handler
\* rejects and the handler sends no response
Uncaught(r, errMessage) ==
    /\ pc' = [pc EXCEPT ![r] = "threw"]
    /\ raised' = [raised EXCEPT ![r] = errMessage]
    /\ UNCHANGED <<res, log>>

\* an exception thrown inside the try block
Caught(r, logged, errMessage) ==
    /\ pc' = [pc EXCEPT ![r] = AfterCatch]
    /\ raised' = [raised EXCEPT ![r] = errMessage]
    /\ log' = [log EXCEPT ![r] = @ \o logged \o <<<<"Chat handler error:", errMessage>>>>]
    /\ res' = [res EXCEPT ![r] = CatchResponse(errMessage)]

\* an early return res.status(code).json({ error })
Respond(r, code, text) ==
    /\ pc' = [pc EXCEPT ![r] = "done"]
    /\ res' = [res EXCEPT ![r] = ErrorResponse(code, text)]
    /\ UNCHANGED <<raised, log>>

\* the platform invokes the handler with a request
Arrive(r, q) ==
    /\ pc[r] = "idle"
    /\ req' = [req EXCEPT ![r] = q]
    /\ pc' = [pc EXCEPT ![r] = "received"]
    /\ UNCHANGED <<apiKey, locals, outbound, calls, upstream, raised, res, log>>
    /\ UNCHANGED classifierVars

\* the handler from its entry to its first await: the checks, the
\* destructuring, the classification, and the fetch call
HandlerEntry(r) ==
    /\ pc[r] = "received"
    /\ UNCHANGED <<apiKey, req, upstream>>
    /\ UNCHANGED classifierVars
    /\ LET q == req[r]
           message == q.body.message
           history == DefaultHistory(q.body.history)
           sanitized == Sanitize(message.str)
           complexity == detectComplexity(ClassifiedMessage(message.str, sanitized),
                                          ClassifiedHistory(history))
           model == MODELS[complexity]
       IN  IF MethodRejected(q.method)
           THEN /\ Respond(r, 405, MethodNotAllowed)
                /\ UNCHANGED <<locals, outbound, calls>>
           ELSE IF KeyMissing(apiKey)
           THEN /\ Respond(r, 500, KeyNotConfigured)
                /\ UNCHANGED <<locals, outbound, calls>>
           ELSE IF ~q.body.present
           THEN /\ Uncaught(r, "Cannot destructure property 'message' of 'req.body'")
                /\ UNCHANGED <<locals, outbound, calls>>
           ELSE IF MessageInvalid(message)
           THEN /\ Respond(r, 400, InvalidMessage)
                /\ UNCHANGED <<locals, outbound, calls>>
           ELSE IF LengthThrows(history)
           THEN /\ Uncaught(r, "Cannot read properties of null (reading 'length')")
                /\ locals' = [locals EXCEPT ![r].sanitized = sanitized]
                /\ UNCHANGED <<outbound, calls>>
           ELSE IF ChatHistoryThrows(history)
           THEN /\ Uncaught(r, "history.slice(...).map is not a function")
                /\ locals' = [locals EXCEPT ![r] =
                       [sanitized |-> sanitized, complexity |-> complexity, model |-> model]]
                /\ UNCHANGED <<outbound, calls>>
           ELSE /\ locals' = [locals EXCEPT ![r] =
                       [sanitized |-> sanitized, complexity |-> complexity, model |-> model]]
                /\ outbound' = [outbound EXCEPT ![r] =
                       [ model         |-> model,
                         messages      |-> OutboundMessages(ChatHistory(history), sanitized),
                         max_tokens    |-> 300,
                         temperature   |-> "0.7",
                         authorization |-> apiKey ]]
                /\ calls' = [calls EXCEPT ![r] = @ + 1]
                /\ pc' = [pc EXCEPT ![r] = "fetching"]
                /\ UNCHANGED <<raised, res, log>>

\* await fetch(...): the call rejects, or resolves with a response whose ok
\* flag is false or true
FetchSettles(r) ==
    /\ pc[r] = "fetching"
    /\ UNCHANGED <<apiKey, req, locals, outbound, calls>>
    /\ UNCHANGED classifierVars
    /\ \/ \E e \in RejectionMessages :
            /\ upstream' = [upstream EXCEPT ![r].state = "rejected", ![r].text = e]
            /\ Caught(r, <<>>, e)
       \/ \E ok \in BOOLEAN :
            /\ upstream' = [upstream EXCEPT ![r].state = IF ok THEN "ok" ELSE "notOk"]
            /\ pc' = [pc EXCEPT ![r] = IF ok THEN "readingJson" ELSE "readingError"]
            /\ UNCHANGED <<raised, res, log>>

\* if (!response.ok): await response.text(), log it, throw
ReadErrorText(r) ==
    /\ pc[r] = "readingError"
    /\ UNCHANGED <<apiKey, req, locals, outbound, calls>>
    /\ UNCHANGED classifierVars
    /\ \/ \E t \in UpstreamErrorTexts :
            /\ upstream' = [upstream EXCEPT ![r].text = t]
            /\ Caught(r, <<<<"OpenRouter error:", t>>>>, "OpenRouter request failed")
       \/ \E e \in RejectionMessages :
            /\ upstream' = [upstream EXCEPT ![r].state = "unreadable", ![r].text = e]
            /\ Caught(r, <<>>, e)

\* await response.json(), the reply extraction, and the 200 response
ReadJson(r) ==
    /\ pc[r] = "readingJson"
    /\ UNCHANGED <<apiKey, req, locals, outbound, calls>>
    /\ UNCHANGED classifierVars
    /\ \/ \E e \in RejectionMessages :
            /\ upstream' = [upstream EXCEPT ![r].state = "unreadable", ![r].text = e]
            /\ Caught(r, <<>>, e)
       \/ \E reply \in ReplyValues :
            /\ upstream' = [upstream EXCEPT ![r].reply = reply]
            /\ IF reply.kind = "undefined" \/ reply.text = ""
               THEN Caught(r, <<>>, "No response from model")
               ELSE /\ res' = [res EXCEPT ![r] =
                          [ status |-> 200,
                            body   |-> [ reply      |-> reply.text,
                                         model      |-> locals[r].model,
                                         complexity |-> locals[r].complexity ] ]]
                    /\ pc' = [pc EXCEPT ![r] = "done"]
                    /\ UNCHANGED <<raised, log>>

\* one invocation, any request
Next ==
    \/ \E q \in Requests : Arrive(1, q)
    \/ HandlerEntry(1)
    \/ FetchSettles(1)
    \/ ReadErrorText(1)
    \/ ReadJson(1)

Spec == Init /\ [][Next]_vars

(***************************************************************************)
(* Several invocations interleaved at their awaits.                        *)
(***************************************************************************)
NextConcurrent ==
    \E r \in Reqs :
        \/ \E q \in FewRequests : Arrive(r, q)
        \/ HandlerEntry(r)
        \/ FetchSettles(r)
        \/ ReadErrorText(r)
        \/ ReadJson(r)

SpecConcurrent == Init /\ [][NextConcurrent]_vars

(***************************************************************************)
(* The classifier alone, on enumerated messages and history lengths.       *)
(***************************************************************************)
ClassifierHistories ==
    { HistoryArray(n, 0) : n \in {0, HistoryLenLimit, HistoryLenLimit + 1, MaxHistory} }

InitClassifier ==
    /\ apiKey = "undefined"
    /\ HandlersIdle
    /\ cMessage \in ClassifierMessages
    /\ cHistory \in ClassifierHistories
    /\ cResult = "unset"

Classify ==
    /\ cResult = "unset"
    /\ cResult' = detectComplexity(cMessage, cHistory)
    /\ UNCHANGED <<cMessage, cHistory>>
    /\ UNCHANGED handlerVars

NextClassifier == Classify

SpecClassifier == InitClassifier /\ [][NextClassifier]_vars

(***************************************************************************)
(* Properties.                                                             *)
(***************************************************************************)
Generic500 == [status |-> 500, body |-> [error |-> "Something went wrong. Please try again."]]

CredentialPresent == apiKey \notin {"undefined", ""}

\* the handler of r has run past its entry
Entered(r) == pc[r] \notin {"idle", "received"}

\* the handler of r has ended, with a response or with a rejected promise
Ended(r) == pc[r] \in {"done", "threw"}

Min(a, b) == IF a < b THEN a ELSE b

\* the first min(500, length) characters of the message of r
TruncatedInput(r) ==
    SubSeq(req[r].body.message.str, 1, Min(500, Len(req[r].body.message.str)))

\* the history of r after the destructuring default
HistoryOf(r) ==
    IF req[r].body.history.kind = "absent" THEN <<>> ELSE req[r].body.history.items

\* the lower-cased, trimmed text equals a greeting token or starts with one
\* followed by a space
GreetingText(m) ==
    LET text == trim(toLowerCase(m))
    IN  \E p \in simplePatterns :
            \/ text = p
            \/ Len(text) > Len(p) /\ SubSeq(text, 1, Len(p) + 1) = p \o <<" ">>

\* the message contains "gdpr", case-insensitively
ContainsGdpr(m) ==
    \E i \in 1..(Len(m) - 3) :
        SubSeq(toLowerCase(m), i, i + 3) = <<"g","d","p","r">>

\* C1: for a POST with the credential present, every exception raised in the
\* handler (a missing body and a history that is not a sequence included)
\* ends with the response 500 "Something went wrong. Please try again."
C1_EveryFailureIsGeneric500 ==
    \A r \in Reqs :
        (req[r].method = "POST" /\ CredentialPresent /\ Ended(r) /\ raised[r] # "none")
            => res[r] = Generic500

\* the upstream call of r failed: rejected, non-success status, unreadable
\* body, or success without reply text
UpstreamFailed(r) ==
    \/ upstream[r].state \in {"rejected", "unreadable"}
    \/ upstream[r].state = "notOk" /\ pc[r] = "done"
    \/ /\ upstream[r].state = "ok"
       /\ pc[r] = "done"
       /\ upstream[r].reply.kind = "undefined" \/ upstream[r].reply.text = ""

\* C2: when the upstream call returns a non-success status, returns success
\* without reply text, or throws, the caller receives exactly 500 with the
\* generic message; no response body carries the upstream error text or an
\* exception message
C2_UpstreamFailureIsGeneric500 ==
    \A r \in Reqs :
        /\ UpstreamFailed(r) => res[r] = Generic500
        /\ "error" \in DOMAIN res[r].body =>
               res[r].body.error \notin
                   (UpstreamErrorTexts \cup RejectionMessages \cup {raised[r], upstream[r].text})

C2_Witness ==
    \E r \in Reqs :
        /\ pc[r] = "done"
        /\ upstream[r].state = "notOk"
        /\ upstream[r].text \in UpstreamErrorTexts
        /\ raised[r] = "OpenRouter request failed"
        /\ res[r].status = 500

\* C3: a request whose method is not POST gets 405 "Method not allowed" and
\* no upstream call, whatever the credential and the body
C3_NonPostIs405 ==
    \A r \in Reqs :
        (Entered(r) /\ req[r].method # "POST")
            => /\ pc[r] = "done"
               /\ res[r] = [status |-> 405, body |-> [error |-> "Method not allowed"]]
               /\ calls[r] = 0
               /\ outbound[r] = NoFetch

C3_Witness ==
    \E r \in Reqs :
        /\ pc[r] = "done"
        /\ req[r].method = "OPTIONS"
        /\ CredentialPresent
        /\ req[r].body.present
        /\ req[r].body.message.kind = "string"
        /\ req[r].body.message.str # <<>>
        /\ res[r].status = 405

\* C4: a POST made while the credential is absent gets 500 "API key not
\* configured" with no upstream call, before the body is read: the outcome is
\* that for a valid body, an invalid message and a missing body alike
C4_MissingKeyIs500 ==
    \A r \in Reqs :
        (Entered(r) /\ req[r].method = "POST" /\ ~CredentialPresent)
            => /\ pc[r] = "done"
               /\ res[r] = [status |-> 500, body |-> [error |-> "API key not configured"]]
               /\ calls[r] = 0
               /\ outbound[r] = NoFetch
               /\ raised[r] = "none"
               /\ locals[r] = NoLocals

C4_Witness ==
    \E r \in Reqs :
        /\ pc[r] = "done"
        /\ req[r].method = "POST"
        /\ apiKey = ""
        /\ ~req[r].body.present
        /\ res[r].status = 500

\* C5: the messages sent upstream are one system message with the fixed
\* prompt, then the last min(6, n) turns of the history in order, each with
\* role user when its sender is user and role assistant otherwise, then one
\* user message with the truncated input; between 2 and 8 messages, with a
\* system message only at the first position
C5_OutboundShape ==
    \A r \in Reqs :
        calls[r] > 0 =>
            LET h    == HistoryOf(r)
                n    == Len(h)
                k    == Min(6, n)
                msgs == outbound[r].messages
            IN  /\ Len(msgs) = k + 2
                /\ Len(msgs) >= 2 /\ Len(msgs) <= 8
                /\ msgs[1] = [role |-> "system", content |-> SYSTEM_PROMPT]
                /\ \A i \in 1..k :
                       msgs[1 + i] =
                           [ role    |-> IF h[n - k + i].sender = "user"
                                         THEN "user" ELSE "assistant",
                             content |-> h[n - k + i].text ]
                /\ msgs[k + 2] = [role |-> "user", content |-> TruncatedInput(r)]
                /\ \A i \in 2..Len(msgs) : msgs[i].role # "system"

C5_Witness ==
    \E r \in Reqs :
        /\ calls[r] > 0
        /\ Len(HistoryOf(r)) > 6
        /\ Len(outbound[r].messages) = 8
        /\ \E i \in 2..7 : outbound[r].messages[i].role = "user"
        /\ \E i \in 2..7 : outbound[r].messages[i].role = "assistant"

\* C6: the content of the final user message sent upstream is the prefix of
\* the original message of length min(500, length): never longer than 500,
\* the original when that has at most 500 characters, and the value the
\* classifier is applied to
C6_TruncatedPrefix ==
    \A r \in Reqs :
        calls[r] > 0 =>
            LET m       == req[r].body.message.str
                msgs    == outbound[r].messages
                content == msgs[Len(msgs)].content
            IN  /\ msgs[Len(msgs)].role = "user"
                /\ Len(content) = Min(500, Len(m))
                /\ Len(content) <= 500
                /\ \A i \in 1..Len(content) : content[i] = m[i]
                /\ Len(m) <= 500 => content = m
                /\ locals[r].sanitized = content
                /\ locals[r].complexity = detectComplexity(content, DefaultHistory(req[r].body.history))

C6_Witness ==
    \E r \in Reqs :
        /\ calls[r] > 0
        /\ Len(req[r].body.message.str) > 500
        /\ Len(outbound[r].messages[Len(outbound[r].messages)].content) = 500

\* C7: a 200 response carries reply, model and complexity, where complexity
\* is the tier of the truncated message and the full history, model is the
\* MODELS entry of that tier and the model of the upstream request; a 200 is
\* sent only after an upstream call that returned success with a reply
C7_SuccessBody ==
    \A r \in Reqs :
        res[r].status = 200 =>
            /\ DOMAIN res[r].body = {"reply", "model", "complexity"}
            /\ res[r].body.complexity =
                   detectComplexity(TruncatedInput(r),
                                    [kind |-> "array", items |-> HistoryOf(r), str |-> <<>>])
            /\ res[r].body.model = MODELS[res[r].body.complexity]
            /\ res[r].body.model = outbound[r].model
            /\ calls[r] = 1
            /\ upstream[r].state = "ok"
            /\ upstream[r].reply.kind = "string"
            /\ upstream[r].reply.text # ""
            /\ res[r].body.reply = upstream[r].reply.text

C7_Witness ==
    \E r \in Reqs :
        /\ res[r].status = 200
        /\ Len(HistoryOf(r)) > 8
        /\ res[r].body.complexity = "complex"
        /\ detectComplexity(TruncatedInput(r), HistoryArray(0, 0)) = "medium"

\* C8 as stated: every message containing "gdpr" (case-insensitive) with
\* wordCount > 4 is classified complex, for every history length
C8_GdprIsComplex ==
    (cResult # "unset" /\ ContainsGdpr(cMessage) /\ splitLength(cMessage) > 4)
        => cResult = "complex"

\* C8 amended: every message containing "gdpr" (case-insensitive) with
\* wordCount > 4 whose lower-cased, trimmed text neither equals a greeting
\* token nor starts with one followed by a space is classified complex, for
\* every history length
C8_GdprIsComplexUnlessGreeting ==
    (/\ cResult # "unset"
     /\ ContainsGdpr(cMessage)
     /\ splitLength(cMessage) > 4
     /\ ~GreetingText(cMessage))
        => cResult = "complex"

C8_Witness ==
    /\ cResult = "complex"
    /\ ContainsGdpr(cMessage)
    /\ splitLength(cMessage) = 5
    /\ ~GreetingText(cMessage)
    /\ Len(cHistory.items) = 0

\* C9: a message whose lower-cased, trimmed text equals a greeting token or
\* starts with one followed by a space, and a message of at most 4 tokens,
\* is classified simple whatever the history length, the word count and the
\* presence of a complex substring
C9_SimpleFirst ==
    (cResult # "unset" /\ (GreetingText(cMessage) \/ splitLength(cMessage) <= 4))
        => cResult = "simple"

C9_Witness ==
    /\ cResult = "simple"
    /\ GreetingText(cMessage)
    /\ ContainsGdpr(cMessage)
    /\ splitLength(cMessage) > 25
    /\ Len(cHistory.items) > 8

\* the upstream call of r has failed and the catch block has run
CallFailed(r) == calls[r] > 0 /\ raised[r] # "none"

\* C10: at most one upstream call is issued per request; once that call has
\* failed the request has ended with a response and issues no further call;
\* for each of several interleaved requests
C10_NoRetries ==
    /\ [](\A r \in Reqs :
              /\ calls[r] <= 1
              /\ CallFailed(r) => (pc[r] = "done" /\ res[r] = Generic500))
    /\ [][\A r \in Reqs :
              /\ upstream[r].state # "none" => calls'[r] = calls[r]
              /\ CallFailed(r) => (calls'[r] = calls[r] /\ pc'[r] = pc[r] /\ res'[r] = res[r])]_vars

C10_Witness ==
    \E r1, r2 \in Reqs :
        /\ r1 # r2
        /\ CallFailed(r1)
        /\ pc[r1] = "done"
        /\ calls[r2] = 1
        /\ pc[r2] = "fetching"

=============================================================================
